---- MODULE Spec2Model ----
(***************************************************************************)
(* A model of the MultiGenQA backend (backend/app.py, backend/models.py): *)
(* the user table, the bearer tokens in flight, the conversation, message *)
(* and usage tables, and one action per HTTP request, the before_request  *)
(* hook included.  Text is a sequence of one-character strings, so that   *)
(* strip(), lower() and the regular-expression searches are computed.     *)
(*                                                                         *)
(* Spec covers requests that the rate limiter admits, whose JSON fields   *)
(* are absent or strings, against a database whose commits succeed.       *)
(***************************************************************************)
EXTENDS Integers, Sequences, FiniteSets, TLC

VARIABLES
    now,            \* the wall clock, in seconds (time.time, datetime.utcnow)
    ticks,          \* how often the clock has advanced
    users,          \* table users: id -> row
    session,        \* each client's session cookie: its user_id, or None
    tokens,         \* the auth tokens issued so far (held by clients)
    conversations,  \* table conversations: id -> row
    messages,       \* table messages, in insertion order
    usage,          \* table api_usage, in insertion order
    req,            \* the request being answered
    resp,           \* the response to it
    pw,             \* a password under validation (SpecPw)
    pwResult,       \* validate_password's result for pw (SpecPw)
    hits,           \* the limiter's chat counter of each client address
    inflight        \* the requests being served concurrently, per worker

vars == <<now, ticks, users, session, tokens, conversations, messages, usage,
          req, resp, pw, pwResult, hits, inflight>>

None == "None"

(***************************************************************************)
(* Bounds of the model.                                                    *)
(***************************************************************************)
MaxPwLen == 8
MaxTicks == 3
MaxRegistered == 2
MaxTokens == 2
MaxConvs == 2
MaxMsgs == 3
MaxUsage == 2

(***************************************************************************)
(* Text.                                                                   *)
(***************************************************************************)
UpperChars == {"A", "B", "P", "S"}
LowerChars == {"a", "b", "c", "d", "g", "l", "n", "o", "r", "t", "w"}
DigitChars == {"0", "1"}
\* the character class of app.py line 508
SpecialChars == {"!", "@", "#", "$", "%", "^", "&", "*", "(", ")", ",", ".",
                 "?", "\"", ":", "{", "}", "|", "<", ">"}
WhiteChars == {" "}

LowerChar(c) ==
    CASE c = "A" -> "a"
      [] c = "B" -> "b"
      [] c = "P" -> "p"
      [] c = "S" -> "s"
      [] OTHER -> c

\* str.lower()
Lower(s) == [i \in 1..Len(s) |-> LowerChar(s[i])]

RECURSIVE LStrip(_)
LStrip(s) == IF s # <<>> /\ Head(s) \in WhiteChars THEN LStrip(Tail(s)) ELSE s

RECURSIVE RStrip(_)
RStrip(s) ==
    IF s # <<>> /\ s[Len(s)] \in WhiteChars
    THEN RStrip(SubSeq(s, 1, Len(s) - 1))
    ELSE s

\* str.strip()
Strip(s) == RStrip(LStrip(s))

\* re.search(r'[class]', s) is not None
RECURSIVE ReSearch(_, _)
ReSearch(class, s) ==
    IF s = <<>> THEN FALSE
    ELSE IF Head(s) \in class THEN TRUE
    ELSE ReSearch(class, Tail(s))

(***************************************************************************)
(* validate_password (app.py 488-511): the list of error messages.         *)
(***************************************************************************)
MinPasswordLength == 8

ErrLength == "Password must be at least 8 characters long"
ErrUpper == "Password must contain at least one uppercase letter"
ErrLower == "Password must contain at least one lowercase letter"
ErrDigit == "Password must contain at least one number"
ErrSpecial == "Password must contain at least one special character"

\* a faulty variant: the boundary length is refused
TooShortOrEqual(password) == Len(password) <= MinPasswordLength

TooShort(password) == Len(password) < MinPasswordLength

validate_password(password) ==
    LET e1 == IF TooShort(password) THEN <<ErrLength>> ELSE <<>>
        e2 == IF ~ReSearch(UpperChars, password) THEN <<ErrUpper>> ELSE <<>>
        e3 == IF ~ReSearch(LowerChars, password) THEN <<ErrLower>> ELSE <<>>
        e4 == IF ~ReSearch(DigitChars, password) THEN <<ErrDigit>> ELSE <<>>
        e5 == IF ~ReSearch(SpecialChars, password) THEN <<ErrSpecial>> ELSE <<>>
    IN e1 \o e2 \o e3 \o e4 \o e5

(***************************************************************************)
(* SpecPw: validate_password applied to every text of bounded length over  *)
(* one character of each class and one character of no class.              *)
(***************************************************************************)
PwAlphabet == {"A", "a", "1", "!", "_"}
NotRun == <<"not run">>

TypeChar ==
    /\ req.route = "-"
    /\ Len(pw) < MaxPwLen
    /\ \E c \in PwAlphabet : pw' = Append(pw, c)
    /\ pwResult' = NotRun
    /\ UNCHANGED <<hits, inflight>>
    /\ UNCHANGED <<now, ticks, users, session, tokens, conversations, messages,
                   usage, req, resp>>

ValidatePw ==
    /\ req.route = "-"
    /\ pwResult = NotRun
    /\ pwResult' = validate_password(pw)
    /\ UNCHANGED <<hits, inflight>>
    /\ UNCHANGED <<now, ticks, users, session, tokens, conversations, messages,
                   usage, req, resp, pw>>

(***************************************************************************)
(* JSON bodies: a function from the keys present to their (text) values.   *)
(***************************************************************************)
\* dict.get(key, default)
Get(data, key, default) == IF key \in DOMAIN data THEN data[key] ELSE default

\* email_validator.validate_email: one "@", a local part, a dotted domain,
\* no white space; and the domain must accept mail (a DNS lookup).
EmailSyntaxOk(email) ==
    LET ats == {i \in 1..Len(email) : email[i] = "@"}
    IN /\ Cardinality(ats) = 1
       /\ \A i \in 1..Len(email) : email[i] \notin WhiteChars
       /\ LET at == CHOOSE i \in ats : TRUE
          IN /\ at > 1
             /\ \E d \in (at + 2)..(Len(email) - 1) : email[d] = "."

NameTooShort(name) == Len(name) < 2

\* validate_user_input (app.py 513-556): the messages of each field
FieldErrors(data, deliverable) ==
    LET email == Lower(Strip(Get(data, "email", <<>>)))
        password == Get(data, "password", <<>>)
        first_name == Strip(Get(data, "first_name", <<>>))
        last_name == Strip(Get(data, "last_name", <<>>))
        eEmail ==
            IF email = <<>> THEN <<"Email is required">>
            ELSE IF ~(EmailSyntaxOk(email) /\ deliverable)
                 THEN <<"EmailNotValidError">>
                 ELSE <<>>
        ePassword ==
            IF password = <<>> THEN <<"Password is required">>
            ELSE validate_password(password)
        eFirst ==
            IF first_name = <<>> THEN <<"First name is required">>
            ELSE IF NameTooShort(first_name)
                 THEN <<"First name must be at least 2 characters long">>
                 ELSE <<>>
        eLast ==
            IF last_name = <<>> THEN <<"Last name is required">>
            ELSE IF NameTooShort(last_name)
                 THEN <<"Last name must be at least 2 characters long">>
                 ELSE <<>>
        all == [f \in {"email", "password", "first_name", "last_name"} |->
                   CASE f = "email" -> eEmail
                     [] f = "password" -> ePassword
                     [] f = "first_name" -> eFirst
                     [] OTHER -> eLast]
    IN all

\* a faulty variant: validation stops at the first field in error
validate_first_only(data, deliverable) ==
    LET all == FieldErrors(data, deliverable)
        order == <<"email", "password", "first_name", "last_name">>
        bad == {i \in 1..4 : all[order[i]] # <<>>}
        first == {order[i] : i \in {j \in bad : \A k \in bad : j <= k}}
    IN [f \in first |-> all[f]]

\* errors: the fields in error -> their messages
validate_user_input(data, deliverable) ==
    LET all == FieldErrors(data, deliverable)
    IN [f \in {g \in DOMAIN all : all[g] # <<>>} |-> all[f]]

NoErrors == [f \in {} |-> <<>>]

(***************************************************************************)
(* A response: the status and what the JSON body carries.  handler tells   *)
(* whether the view function's body ran; issued holds the auth token a     *)
(* login returns.  provider_calls, dispatch_failures, commit_failed and    *)
(* rolled_back tell what happened while the request was served: the calls  *)
(* made to a provider, what failed inside the provider binding, whether a  *)
(* db.session.commit() raised and whether db.session.rollback() was called *)
(* after it.                                                               *)
(***************************************************************************)
BaseResp ==
    [status |-> 0, error |-> None, errors |-> NoErrors, user |-> None,
     issued |-> {}, verification_token |-> None, handler |-> TRUE,
     provider_calls |-> 0, dispatch_failures |-> {}, commit_failed |-> FALSE,
     rolled_back |-> FALSE, body |-> <<>>]

\* no request is being answered (the clock or the operator has moved since)
NoRequest == [route |-> "-"]

Fail(status, error) == [BaseResp EXCEPT !.status = status, !.error = error]

(***************************************************************************)
(* Identifiers.  uuid4() yields an identifier not in use: the first free   *)
(* one of a pool.                                                          *)
(***************************************************************************)
Clients == {"k1", "k2"}

\* the workers that serve requests side by side, and a worker at rest
Workers == {"w1", "w2"}
Idle == [pc |-> "idle"]
NoneInFlight == [w \in Workers |-> Idle]
UserIdPool == <<"u1", "u2", "u3", "u4", "u5", "u6">>
ConvIdPool == [i \in 1..60 |-> "c" \o ToString(i)]

FirstFree(pool, used) ==
    pool[CHOOSE i \in 1..Len(pool) :
            /\ pool[i] \notin used
            /\ \A j \in 1..(i - 1) : pool[j] \in used]

\* the session identifier before_request draws for a client without one
NewSessionId(c) == IF c = "k1" THEN "s1" ELSE "s2"

NoTime == -1

(***************************************************************************)
(* Passwords (models.py 60-79): a salted one-way hash, checked by          *)
(* rehashing.                                                              *)
(***************************************************************************)
generate_password_hash(password) == <<"pbkdf2">> \o password

\* a faulty variant: every password is accepted
check_any_password(row, password) == TRUE

check_password(row, password) ==
    row.password_hash = generate_password_hash(password)

TemporaryPassword == <<"t", "e", "m", "p">>

(***************************************************************************)
(* before_request (app.py 723-750).  An endpoint is named after its view   *)
(* function; the hook returns early for names that start with "auth".      *)
(***************************************************************************)
EndpointName(route) ==
    CASE route = "register" -> <<"r", "e", "g", "i", "s", "t", "e", "r">>
      [] route = "login" -> <<"l", "o", "g", "i", "n">>
      [] route = "logout" -> <<"l", "o", "g", "o", "u", "t">>
      [] route = "me" -> <<"g", "e", "t", "_", "c", "u", "r", "r", "e", "n", "t",
                           "_", "u", "s", "e", "r">>
      [] route = "chat" -> <<"c", "h", "a", "t">>
      [] route = "verify-email" -> <<"v", "e", "r", "i", "f", "y", "_", "e", "m",
                                     "a", "i", "l">>
      [] route = "conversations" -> <<"g", "e", "t", "_", "c", "o", "n", "v", "e",
                                      "r", "s", "a", "t", "i", "o", "n", "s">>
      [] route = "conversation" -> <<"g", "e", "t", "_", "c", "o", "n", "v", "e",
                                     "r", "s", "a", "t", "i", "o", "n">>
      [] OTHER -> <<"g", "e", "t", "_", "u", "s", "a", "g", "e", "_", "s", "t",
                    "a", "t", "s">>

StartsWith(s, prefix) ==
    /\ Len(s) >= Len(prefix)
    /\ SubSeq(s, 1, Len(prefix)) = prefix

SkipsSessionSetup(route) == StartsWith(EndpointName(route), <<"a", "u", "t", "h">>)

LegacyEmail(sid) == <<"legacy-", sid, "@", "example", ".", "com">>

LegacyUser(sid, t) ==
    [email |-> LegacyEmail(sid),
     password_hash |-> generate_password_hash(TemporaryPassword),
     first_name |-> <<"Legacy">>,
     last_name |-> <<"User">>,
     is_active |-> TRUE,
     is_verified |-> FALSE,
     email_verification_token |-> None,
     session_id |-> sid,
     last_active |-> t,
     last_login |-> NoTime]

\* a faulty variant: the cookie is not looked at
AlwaysNeedsLegacyUser(c, route) == ~SkipsSessionSetup(route)

NeedsLegacyUser(c, route) == ~SkipsSessionSetup(route) /\ session[c] = None

\* the users table once the hook has run; commits tells whether the hook's
\* db.session.commit() went through (a failed one is rolled back, line 750)
HookUsersWith(c, route, commits) ==
    IF NeedsLegacyUser(c, route) /\ commits
    THEN LET id == FirstFree(UserIdPool, DOMAIN users)
         IN [u \in DOMAIN users \cup {id} |->
                IF u = id THEN LegacyUser(NewSessionId(c), now) ELSE users[u]]
    ELSE users

\* the users table and the client's cookie once the hook has run
HookUsers(c, route) == HookUsersWith(c, route, TRUE)

HookSession(c, route) ==
    IF NeedsLegacyUser(c, route)
    THEN [session EXCEPT ![c] = NewSessionId(c)]
    ELSE session

\* the rows a registration made (the hook's legacy rows carry a session_id)
Registered(tbl) == {u \in DOMAIN tbl : tbl[u].session_id = None}

\* a faulty variant: the lookup finds nobody
NoUserByEmail(tbl, email) == None

\* User.query.filter_by(email=email).first()
UserByEmail(tbl, email) ==
    LET found == {u \in DOMAIN tbl : tbl[u].email = email}
    IN IF found = {} THEN None ELSE CHOOSE u \in found : TRUE

\* generate_verification_token (models.py 139-148): a fresh uuid4
VerificationToken(id) == "evt-" \o id

(***************************************************************************)
(* POST /api/auth/register (app.py 559-608).                               *)
(***************************************************************************)
NewUser(data, id, t) ==
    [email |-> Lower(Strip(data["email"])),
     password_hash |-> generate_password_hash(data["password"]),
     first_name |-> Strip(data["first_name"]),
     last_name |-> Strip(data["last_name"]),
     is_active |-> TRUE,
     is_verified |-> FALSE,
     email_verification_token |-> VerificationToken(id),
     session_id |-> None,
     last_active |-> t,
     last_login |-> NoTime]

Register(c, data, deliverable) ==
    LET tbl == HookUsers(c, "register")
        validation_errors == validate_user_input(data, deliverable)
        email == Lower(Strip(data["email"]))
        existing_user == UserByEmail(tbl, email)
        id == FirstFree(UserIdPool, DOMAIN tbl)
    IN /\ req' = [route |-> "register", client |-> c, data |-> data,
                  deliverable |-> deliverable]
       /\ session' = HookSession(c, "register")
       /\ IF DOMAIN validation_errors # {}
          THEN /\ resp' = [BaseResp EXCEPT !.status = 400,
                                            !.errors = validation_errors]
               /\ users' = tbl
          ELSE IF existing_user # None
          THEN /\ resp' = [BaseResp EXCEPT !.status = 409,
                               !.errors = [f \in {"email"} |->
                                   <<"User with this email already exists">>]]
               /\ users' = tbl
          ELSE /\ Cardinality(Registered(tbl)) < MaxRegistered
               /\ users' = [u \in DOMAIN tbl \cup {id} |->
                              IF u = id THEN NewUser(data, id, now) ELSE tbl[u]]
               /\ resp' = [BaseResp EXCEPT !.status = 201, !.user = id,
                               !.verification_token = VerificationToken(id)]
       /\ UNCHANGED <<hits, inflight>>
       /\ UNCHANGED <<now, ticks, tokens, conversations, messages, usage, pw,
                      pwResult>>

(***************************************************************************)
(* register as two workers run it side by side (app.py 577-608).  The      *)
(* handler reads the users table for the email (line 580) and commits the  *)
(* new row later (line 594); another worker's steps can fall in between.   *)
(* The email column is unique (models.py 30): the commit of a second row   *)
(* with the same email raises, and the handler's except branch answers 500 *)
(* (lines 606-608).  A worker keeps the answer it gave.                    *)
(***************************************************************************)
Answered(route, data, status, error) ==
    [pc |-> "done", route |-> route, data |-> data, status |-> status,
     error |-> error]

RegisterBegin(w, c, data, deliverable) ==
    LET tbl == HookUsers(c, "register")
        validation_errors == validate_user_input(data, deliverable)
        email == Lower(Strip(data["email"]))
        existing_user == UserByEmail(tbl, email)
    IN /\ inflight[w].pc = "idle"
       /\ session' = HookSession(c, "register")
       /\ users' = tbl
       /\ inflight' = [inflight EXCEPT ![w] =
              IF DOMAIN validation_errors # {}
              THEN Answered("register", data, 400, "validation")
              ELSE IF existing_user # None
              THEN Answered("register", data, 409,
                            "User with this email already exists")
              ELSE [pc |-> "register-commit", data |-> data]]
       /\ UNCHANGED <<now, ticks, tokens, conversations, messages, usage, req,
                      resp, pw, pwResult, hits>>

RegisterCommit(w) ==
    LET data == inflight[w].data
        email == Lower(Strip(data["email"]))
        id == FirstFree(UserIdPool, DOMAIN users)
    IN /\ inflight[w].pc = "register-commit"
       /\ IF \E u \in DOMAIN users : users[u].email = email
          THEN /\ users' = users
               /\ inflight' = [inflight EXCEPT ![w] =
                      Answered("register", data, 500, "Registration failed")]
          ELSE /\ users' = [u \in DOMAIN users \cup {id} |->
                              IF u = id THEN NewUser(data, id, now) ELSE users[u]]
               /\ inflight' = [inflight EXCEPT ![w] =
                      Answered("register", data, 201, None)]
       /\ UNCHANGED <<now, ticks, session, tokens, conversations, messages,
                      usage, req, resp, pw, pwResult, hits>>

(***************************************************************************)
(* Bearer tokens (models.py 81-137).  A token is its payload and an HMAC   *)
(* of that payload under a key; decoding recomputes the HMAC under the     *)
(* server's key and compares, then checks exp and iat against the clock.   *)
(***************************************************************************)
SecretKey == "SECRET_KEY"
OtherKey == "not the server's key"
ExpiresIn == 86400
Leeway == 10

Hmac(key, payload) == [key |-> key, over |-> payload]

jwt_encode(payload, key) == [payload |-> payload, sig |-> Hmac(key, payload)]

\* a faulty variant: a token outlives its expiry by a whole lifetime
ExpiredLate(exp, t, leeway) == exp <= t - leeway - ExpiresIn

Expired(exp, t, leeway) == exp <= t - leeway

\* jwt.decode(token, key, algorithms=['HS256'], leeway=leeway) at time t
jwt_decode(token, key, leeway, t) ==
    IF token.sig # Hmac(key, token.payload)
    THEN [error |-> "InvalidSignatureError"]
    ELSE IF Expired(token.payload.exp, t, leeway)
    THEN [error |-> "ExpiredSignatureError"]
    ELSE IF token.payload.iat > t + leeway
    THEN [error |-> "ImmatureSignatureError"]
    ELSE [error |-> None, payload |-> token.payload]

\* a faulty variant: the expiry is set in the past
generate_stale_token(id, row, t, expires_in) ==
    jwt_encode([user_id |-> id, email |-> row.email, exp |-> t - expires_in,
                iat |-> t], SecretKey)

generate_auth_token(id, row, t, expires_in) ==
    jwt_encode([user_id |-> id, email |-> row.email, exp |-> t + expires_in,
                iat |-> t], SecretKey)

UserIsActive(tbl, id) == id \in DOMAIN tbl /\ tbl[id].is_active

\* a faulty variant: the active flag is not looked at
verify_ignoring_active(token, tbl, t) ==
    LET d == jwt_decode(token, SecretKey, Leeway, t)
    IN IF d.error # None THEN None
       ELSE IF d.payload.user_id \in DOMAIN tbl THEN d.payload.user_id
       ELSE None

\* User.verify_auth_token: the user's id, or None
verify_auth_token(token, tbl, t) ==
    LET d == jwt_decode(token, SecretKey, Leeway, t)
    IN IF d.error # None THEN None
       ELSE IF UserIsActive(tbl, d.payload.user_id) THEN d.payload.user_id
       ELSE None

\* what a client may send as a token: one it was issued, the same payload
\* signed with another key, or an issued token with its user id rewritten
Forge(token) == jwt_encode(token.payload, OtherKey)

Tamper(token, id) ==
    [token EXCEPT !.payload = [token.payload EXCEPT !.user_id = id]]

Presentable ==
    tokens \cup {Forge(tok) : tok \in tokens}
           \cup UNION {{Tamper(tok, id) :
                           id \in DOMAIN users \ {tok.payload.user_id}} :
                       tok \in tokens}

(***************************************************************************)
(* POST /api/auth/login (app.py 610-653).                                  *)
(***************************************************************************)
Login(c, data) ==
    LET tbl == HookUsers(c, "login")
        email == Lower(Strip(Get(data, "email", <<>>)))
        password == Get(data, "password", <<>>)
        user == UserByEmail(tbl, email)
        token == generate_auth_token(user, tbl[user], now, ExpiresIn)
    IN /\ req' = [route |-> "login", client |-> c, data |-> data]
       /\ session' = HookSession(c, "login")
       /\ IF email = <<>> \/ password = <<>>
          THEN /\ resp' = Fail(400, "Email and password are required")
               /\ users' = tbl
               /\ tokens' = tokens
          ELSE IF user = None \/ ~check_password(tbl[user], password)
          THEN /\ resp' = Fail(401, "Invalid email or password")
               /\ users' = tbl
               /\ tokens' = tokens
          ELSE IF ~tbl[user].is_active
          THEN /\ resp' = Fail(401, "Account is deactivated")
               /\ users' = tbl
               /\ tokens' = tokens
          ELSE /\ Cardinality(tokens \cup {token}) <= MaxTokens
               /\ users' = [tbl EXCEPT ![user].last_login = now,
                                       ![user].last_active = now]
               /\ tokens' = tokens \cup {token}
               /\ resp' = [BaseResp EXCEPT !.status = 200, !.user = user,
                                            !.issued = {token}]
       /\ UNCHANGED <<hits, inflight>>
       /\ UNCHANGED <<now, ticks, conversations, messages, usage, pw, pwResult>>

(***************************************************************************)
(* POST /api/auth/verify-email (app.py 690-720).                           *)
(***************************************************************************)
\* a faulty variant: the stored token outlives the verification
VerifiedKeepingToken(row) == [row EXCEPT !.is_verified = TRUE]

Verified(row) ==
    [row EXCEPT !.is_verified = TRUE, !.email_verification_token = None]

\* User.query.filter_by(email_verification_token=token).first()
UserByVerificationToken(tbl, token) ==
    LET found == {u \in DOMAIN tbl : tbl[u].email_verification_token = token}
    IN IF found = {} THEN None ELSE CHOOSE u \in found : TRUE

VerifyEmail(c, data) ==
    LET tbl == HookUsers(c, "verify-email")
        token == Get(data, "token", None)
        user == UserByVerificationToken(tbl, token)
    IN /\ req' = [route |-> "verify-email", client |-> c, data |-> data]
       /\ session' = HookSession(c, "verify-email")
       /\ IF token = None \/ token = ""
          THEN /\ resp' = Fail(400, "Verification token is required")
               /\ users' = tbl
          ELSE IF user = None
          THEN /\ resp' = Fail(400, "Invalid verification token")
               /\ users' = tbl
          ELSE /\ users' = [tbl EXCEPT ![user] = Verified(tbl[user])]
               /\ resp' = [BaseResp EXCEPT !.status = 200]
       /\ UNCHANGED <<hits, inflight>>
       /\ UNCHANGED <<now, ticks, tokens, conversations, messages, usage, pw,
                      pwResult>>

(***************************************************************************)
(* The environment: time passes; an operator clears a user's active flag   *)
(* in the database (no route of the application does).                     *)
(***************************************************************************)
ClockSteps == {5, ExpiresIn + 5}

Tick ==
    /\ ticks < MaxTicks
    /\ \E d \in ClockSteps : now' = now + d
    /\ ticks' = ticks + 1
    /\ req' = NoRequest
    /\ resp' = BaseResp
    /\ UNCHANGED <<hits, inflight>>
    /\ UNCHANGED <<users, session, tokens, conversations, messages, usage, pw,
                   pwResult>>

Deactivate(id) ==
    /\ id \in DOMAIN users
    /\ users[id].is_active
    /\ users' = [users EXCEPT ![id].is_active = FALSE]
    /\ req' = NoRequest
    /\ resp' = BaseResp
    /\ UNCHANGED <<hits, inflight>>
    /\ UNCHANGED <<now, ticks, session, tokens, conversations, messages, usage,
                   pw, pwResult>>

(***************************************************************************)
(* auth_required (app.py 463-485).  The file keeps the decorator's         *)
(* signature and docstring only; its body is modelled from the             *)
(* specification (4.2) and that docstring: a missing Authorization header  *)
(* or one not of the form "Bearer <token>" is answered 401, so is a token  *)
(* that verify_auth_token resolves to None; otherwise the user is attached *)
(* to the request, last_active is set and the view function runs.          *)
(***************************************************************************)
NoHeader == [present |-> FALSE]
Header(scheme, token) == [present |-> TRUE, scheme |-> scheme, token |-> token]

\* a faulty variant: any scheme is taken for a bearer token
AnyScheme(header) == header.present

IsBearer(header) == header.present /\ header.scheme = "Bearer"

auth_required(header, tbl, t) ==
    IF ~IsBearer(header)
    THEN [ok |-> FALSE, user |-> None, error |-> "Authentication required"]
    ELSE LET user == verify_auth_token(header.token, tbl, t)
         IN IF user = None
            THEN [ok |-> FALSE, user |-> None,
                  error |-> "Invalid or expired token"]
            ELSE [ok |-> TRUE, user |-> user, error |-> None]

Unauthorized(auth) ==
    [BaseResp EXCEPT !.status = 401, !.error = auth.error, !.handler = FALSE]

\* a faulty variant: last_active is left alone
NoTouch(tbl, id, t) == tbl

\* user.last_active = datetime.utcnow()
Touch(tbl, id, t) == [tbl EXCEPT ![id].last_active = t]

Headers ==
    {NoHeader} \cup {Header("Bearer", tok) : tok \in Presentable}
               \cup {Header("Basic", tok) : tok \in tokens}

(***************************************************************************)
(* The protected routes that only read: logout, me, conversations,         *)
(* conversation by id, usage (app.py 655-688, 1079-1122, 1198-1237).       *)
(***************************************************************************)
ListLimit == 50
UsageDays == 30
SecondsPerDay == 86400

\* a sequence holding the members of set S once each, latest updated_at first
RECURSIVE ByUpdatedDesc(_)
ByUpdatedDesc(S) ==
    IF S = {} THEN <<>>
    ELSE LET top == CHOOSE k \in S :
                       \A j \in S : conversations[k].updated_at
                                        >= conversations[j].updated_at
         IN <<top>> \o ByUpdatedDesc(S \ {top})

\* a faulty variant: the whole result is returned
NoLimit(q, n) == q

Limit(q, n) == SubSeq(q, 1, IF Len(q) < n THEN Len(q) ELSE n)

\* a faulty variant: any existing conversation passes for the caller's
AnyonesConversation(id, user) == id \in DOMAIN conversations

OwnedBy(id, user) ==
    id \in DOMAIN conversations /\ conversations[id].user_id = user

get_conversations(user) ==
    Limit(ByUpdatedDesc({id \in DOMAIN conversations :
                            OwnedBy(id, user) /\ conversations[id].is_active}),
          ListLimit)

MessagesOf(id) ==
    SelectSeq(messages, LAMBDA m : m.conversation_id = id)

get_usage_stats(user, t) ==
    LET rows == {i \in DOMAIN usage :
                    /\ usage[i].user_id = user
                    /\ usage[i].timestamp >= t - UsageDays * SecondsPerDay}
        names == {usage[i].model_name : i \in rows}
    IN {[model |-> n,
         requests |-> Cardinality({i \in rows : usage[i].model_name = n})] :
            n \in names}

ReadRoutes == {"logout", "me", "conversations", "conversation", "usage"}

ReadBody(route, user, tbl, id, t) ==
    CASE route = "logout" -> [BaseResp EXCEPT !.status = 200, !.user = user]
      [] route = "me" ->
            [BaseResp EXCEPT !.status = 200, !.user = user, !.body = tbl[user]]
      [] route = "conversations" ->
            [BaseResp EXCEPT !.status = 200, !.user = user,
                             !.body = get_conversations(user)]
      [] route = "conversation" ->
            IF OwnedBy(id, user)
            THEN [BaseResp EXCEPT !.status = 200, !.user = user,
                                  !.body = <<id, MessagesOf(id)>>]
            ELSE [Fail(404, "Conversation not found") EXCEPT !.user = user]
      [] OTHER ->
            [BaseResp EXCEPT !.status = 200, !.user = user,
                             !.body = get_usage_stats(user, t)]

\* a faulty variant: the user is looked up by the session cookie
ReadBySession(c, route, header, id) ==
    /\ req' = [route |-> route, client |-> c, header |-> header, id |-> id]
    /\ resp' = IF \E u \in DOMAIN users : users[u].session_id = session[c]
               THEN [BaseResp EXCEPT !.status = 200]
               ELSE Fail(404, "User not found")
    /\ UNCHANGED <<now, ticks, users, session, tokens, conversations, messages,
                   usage, pw, pwResult, hits, inflight>>


\* what the hook's failed commit leaves on the record of the request
HookFailed(c, route, commits) == NeedsLegacyUser(c, route) /\ ~commits

ReadWith(c, route, header, id, commits) ==
    LET tbl == HookUsersWith(c, route, commits)
        auth == auth_required(header, tbl, now)
        touched == Touch(tbl, auth.user, now)
        failed == HookFailed(c, route, commits)
    IN /\ req' = [route |-> route, client |-> c, header |-> header, id |-> id]
       /\ session' = HookSession(c, route)
       /\ IF ~auth.ok
          THEN /\ resp' = [Unauthorized(auth) EXCEPT !.commit_failed = failed,
                                                     !.rolled_back = failed]
               /\ users' = tbl
          ELSE /\ users' = touched
               /\ resp' = [ReadBody(route, auth.user, touched, id, now)
                              EXCEPT !.commit_failed = failed,
                                     !.rolled_back = failed]
       /\ UNCHANGED <<hits, inflight>>
       /\ UNCHANGED <<now, ticks, tokens, conversations, messages, usage, pw,
                      pwResult>>

Read(c, route, header, id) == ReadWith(c, route, header, id, TRUE)

(***************************************************************************)
(* AIService (app.py 763-971).  A provider call returns text ("ok"),       *)
(* raises ("error"), or returns a reply that carries no text ("null").     *)
(* The usage row of a reply is written before the reply's text is          *)
(* measured for the log; measuring a missing text raises, and the except   *)
(* branch writes a row of its own.  Only the OpenAI reply can lack its     *)
(* text without an exception on the way to it.                             *)
(***************************************************************************)
ProviderOutcomes == {"ok", "error", "null"}

\* further outcomes of one chat turn: the provider's client was never
\* initialised; the provider answers but the commit of the usage row fails
\* (_record_usage, app.py 967-971); the provider answers, the usage row is
\* written, and the commit of the assistant message fails (app.py 1056)
ChatOutcomes == ProviderOutcomes \cup {"uninitialized", "unrecorded", "commitfails"}

\* the binding gets a reply with a text
Answers(outcome) == outcome \in {"ok", "unrecorded", "commitfails"}

\* str(e) of the exception the binding catches
ExceptionText(model, outcome) ==
    CASE outcome = "null" -> "object of type 'NoneType' has no len()"
      [] outcome = "uninitialized" /\ model = "openai" ->
            "OpenAI client not initialized. Please check your OpenAI API key configuration and server logs for initialization errors."
      [] outcome = "uninitialized" /\ model = "gemini" ->
            "'NoneType' object has no attribute 'generate_content'"
      [] outcome = "uninitialized" ->
            "'NoneType' object has no attribute 'messages'"
      [] OTHER -> "Connection error."

\* str(e) of a commit that fails
CommitErrorText == "(sqlite3.OperationalError) database is locked"

ErrorPrefix(model) ==
    CASE model = "openai" -> "Error calling OpenAI: "
      [] model = "gemini" -> "Error calling Gemini: "
      [] OTHER -> "Error calling Claude: "

\* what went wrong inside the binding
DispatchFailures(outcome) ==
    IF outcome = "unrecorded" THEN {"usage row"}
    ELSE IF ~Answers(outcome) THEN {"call"}
    ELSE {}

\* len(result) raises after the status-200 row is written
RaisesAfterRecord(model, outcome) == model = "openai" /\ outcome = "null"

\* a faulty variant: one more model name is dispatched
ProvidersAndUnknown == {"openai", "gemini", "claude", "unknown"}

Providers == {"openai", "gemini", "claude"}

\* a faulty variant: every provider's answer is labelled as the first one's
OneLabelForAll(model) == "openai-gpt-4o"


ModelLabel(model) ==
    CASE model = "openai" -> "openai-gpt-4o"
      [] model = "gemini" -> "gemini-2.5-flash"
      [] OTHER -> "claude-3-5-sonnet"

UsageRow(user, model, status, t) ==
    [user_id |-> user, model_name |-> ModelLabel(model), status_code |-> status,
     timestamp |-> t]

\* call_openai / call_gemini / call_claude: the payload returned
CallProvider(model, outcome) ==
    IF Answers(outcome)
    THEN [error |-> None, response |-> <<"h", "e", "l", "l", "o">>,
          model |-> ModelLabel(model)]
    ELSE [error |-> ErrorPrefix(model) \o ExceptionText(model, outcome),
          response |-> <<>>, model |-> ModelLabel(model)]

\* a faulty variant: no usage row is written
RecordNothing(tbl, user, model, outcome, t) == tbl

\* the api_usage table after the call
RecordUsage(tbl, user, model, outcome, t) ==
    IF outcome = "unrecorded"
    THEN tbl
    ELSE IF Answers(outcome)
    THEN Append(tbl, UsageRow(user, model, 200, t))
    ELSE IF RaisesAfterRecord(model, outcome)
    THEN Append(Append(tbl, UsageRow(user, model, 200, t)),
                UsageRow(user, model, 500, t))
    ELSE Append(tbl, UsageRow(user, model, 500, t))

(***************************************************************************)
(* POST /api/chat (app.py 973-1077).                                       *)
(***************************************************************************)
TitleLength == 50

Msg(role, content) == [role |-> role, content |-> content]

Title(history) ==
    IF history # <<>>
    THEN Limit(history[1].content, TitleLength) \o <<".", ".", ".">>
    ELSE <<"New Conversation">>

NewConversation(user, history, t) ==
    [user_id |-> user, title |-> Title(history), updated_at |-> t,
     is_active |-> TRUE]

MessageRow(conv, role, content, label, t) ==
    [conversation_id |-> conv, role |-> role, content |-> content,
     model_used |-> label, timestamp |-> t]

\* a faulty variant: the last message is never taken for the user's
LastIsNeverUser(history) == FALSE

\* a faulty variant: a user message anywhere in the history will do
AnyIsUser(history) == \E i \in DOMAIN history : history[i].role = "user"


LastIsUser(history) ==
    history # <<>> /\ history[Len(history)].role = "user"

\* a faulty variant: only the model is looked at
MissingModelOnly(model, history) == model = ""

\* if not model or not messages
MissingInput(model, history) == model = "" \/ history = <<>>

\* the body of the handler's except branch (app.py 1073-1077)
UnexpectedError(text) == "Unexpected error in chat endpoint: " \o text

Chat(c, header, data, outcome) ==
    LET tbl == HookUsers(c, "chat")
        auth == auth_required(header, tbl, now)
        user == auth.user
        model == Get(data, "model", "")
        history == Get(data, "messages", <<>>)
        conversation_id == Get(data, "conversation_id", "")
        creates == conversation_id = ""
        conv == IF creates THEN FirstFree(ConvIdPool, DOMAIN conversations)
                ELSE conversation_id
        convs1 == IF creates
                  THEN [k \in DOMAIN conversations \cup {conv} |->
                           IF k = conv THEN NewConversation(user, history, now)
                           ELSE conversations[k]]
                  ELSE conversations
        msgs1 == IF LastIsUser(history)
                 THEN Append(messages,
                             MessageRow(conv, "user",
                                        history[Len(history)].content, None, now))
                 ELSE messages
        ai_response == CallProvider(model, outcome)
    IN /\ req' = [route |-> "chat", client |-> c, header |-> header,
                  data |-> data]
       /\ session' = HookSession(c, "chat")
       /\ IF ~auth.ok
          THEN /\ resp' = Unauthorized(auth)
               /\ users' = tbl
               /\ UNCHANGED <<conversations, messages, usage>>
          ELSE /\ users' = Touch(tbl, user, now)
               /\ IF MissingInput(model, history)
                  THEN /\ resp' = [Fail(400, "Model and messages are required")
                                      EXCEPT !.user = user]
                       /\ UNCHANGED <<conversations, messages, usage>>
                  ELSE IF ~creates /\ ~OwnedBy(conversation_id, user)
                  THEN /\ resp' = [Fail(404, "Conversation not found")
                                      EXCEPT !.user = user]
                       /\ UNCHANGED <<conversations, messages, usage>>
                  ELSE IF model \notin Providers
                  THEN /\ resp' = [Fail(400, "Invalid model selected")
                                      EXCEPT !.user = user, !.body = model]
                       /\ conversations' = convs1
                       /\ messages' = msgs1
                       /\ usage' = usage
                  ELSE IF ai_response.error # None
                  THEN /\ resp' = [Fail(500, ai_response.error)
                                      EXCEPT !.user = user,
                                             !.provider_calls = 1,
                                             !.dispatch_failures =
                                                 DispatchFailures(outcome)]
                       /\ conversations' = convs1
                       /\ messages' = msgs1
                       /\ usage' = RecordUsage(usage, user, model, outcome, now)
                  ELSE IF outcome = "commitfails"
                  THEN /\ resp' = [Fail(500, UnexpectedError(CommitErrorText))
                                      EXCEPT !.user = user,
                                             !.provider_calls = 1,
                                             !.commit_failed = TRUE]
                       /\ conversations' = convs1
                       /\ messages' = msgs1
                       /\ usage' = RecordUsage(usage, user, model, outcome, now)
                  ELSE /\ resp' = [BaseResp EXCEPT !.status = 200,
                                      !.user = user,
                                      !.provider_calls = 1,
                                      !.dispatch_failures =
                                          DispatchFailures(outcome),
                                      !.commit_failed = (outcome = "unrecorded"),
                                      !.rolled_back = (outcome = "unrecorded"),
                                      !.body = [response |-> ai_response.response,
                                                model |-> ai_response.model,
                                                conversation_id |-> conv]]
                       /\ conversations' = [convs1 EXCEPT ![conv].updated_at = now]
                       /\ messages' = Append(msgs1,
                              MessageRow(conv, "assistant", ai_response.response,
                                         ai_response.model, now))
                       /\ usage' = RecordUsage(usage, user, model, outcome, now)
       /\ UNCHANGED <<now, ticks, tokens, pw, pwResult>>

(***************************************************************************)
(* The limiter of the chat route (app.py 293-298, 975, 1244-1249): "10 per *)
(* minute", keyed by the client's address, fixed window.  The window of a  *)
(* key opens with its first counted request and closes WindowSeconds       *)
(* later; the limiter looks at the request before any view function or     *)
(* hook of the application does.                                           *)
(***************************************************************************)
ChatLimit == 10
WindowSeconds == 60

NoHits == [c \in Clients |-> [start |-> 0, count |-> 0]]

\* a faulty variant: every address is counted under one key
OneKeyForAll(c) == "k1"

\* get_remote_address
LimitKey(c) == c

\* the key's window as it stands at time t
Window(key, t) ==
    IF hits[key].count > 0 /\ t < hits[key].start + WindowSeconds
    THEN hits[key]
    ELSE [start |-> t, count |-> 0]

\* a chat request the limiter has let through, its counters left aside
ChatAdmitted(c, header, data, outcome) ==
    /\ Chat(c, header, data, outcome)
    /\ UNCHANGED <<hits, inflight>>

\* a chat request as the limiter and then the application see it
ChatLimited(c, header, data, outcome) ==
    LET key == LimitKey(c)
        window == Window(key, now)
    IN IF window.count >= ChatLimit
       THEN /\ req' = [route |-> "chat", client |-> c, header |-> header,
                       data |-> data]
            /\ resp' = [Fail(429, "Rate limit exceeded")
                           EXCEPT !.handler = FALSE]
            /\ UNCHANGED <<now, ticks, users, session, tokens, conversations,
                           messages, usage, pw, pwResult, hits, inflight>>
       ELSE /\ hits' = [hits EXCEPT ![key] = [window EXCEPT !.count = @ + 1]]
            /\ UNCHANGED inflight
            /\ Chat(c, header, data, outcome)

\* the tables stay within the bounds of the exploration
WithinBounds ==
    /\ Cardinality(DOMAIN conversations') <= MaxConvs
    /\ Len(messages') <= MaxMsgs
    /\ Len(usage') <= MaxUsage

(***************************************************************************)
(* The requests clients send.                                              *)
(***************************************************************************)
EmailA == <<"a", "@", "b", ".", "c">>
EmailARaw == <<" ", "A", "@", "B", ".", "c", " ">>
EmailD == <<"d", "@", "b", ".", "c">>
EmailBad == <<"a", "b">>
Blank == <<" ">>
GoodPw == <<"S", "t", "r", "0", "n", "g", "!", "P", "w">>
OtherPw == <<"S", "t", "r", "0", "n", "g", "!", "P", "b">>
WeakPw == <<"a", "b", "c">>
GoodName == <<" ", "A", "l", " ">>
ShortName == <<"A">>

\* a value or its absence: the empty set, or the set of one value
Options(S) == {{}} \cup {{v} : v \in S}

Body(opt) ==
    [k \in {j \in DOMAIN opt : opt[j] # {}} |-> CHOOSE v \in opt[k] : TRUE]

RegBody(e, p, f, l) ==
    Body([email |-> e, password |-> p, first_name |-> f, last_name |-> l])

GoodBody(e) == RegBody({e}, {GoodPw}, {GoodName}, {GoodName})

GoodRegBodies == {GoodBody(e) : e \in {EmailARaw, EmailD}}

\* a good body, and bodies that differ from it in one field or in every field
AllRegBodies ==
    {GoodBody(e) : e \in {EmailA, EmailARaw, EmailD}}
    \cup {RegBody(e, {GoodPw}, {GoodName}, {GoodName}) :
            e \in Options({EmailBad, Blank})}
    \cup {RegBody({EmailA}, p, {GoodName}, {GoodName}) :
            p \in Options({WeakPw, <<>>})}
    \cup {RegBody({EmailA}, {GoodPw}, f, {GoodName}) :
            f \in Options({ShortName, Blank})}
    \cup {RegBody({EmailA}, {GoodPw}, {GoodName}, l) :
            l \in Options({ShortName, Blank})}
    \cup {RegBody({}, {}, {}, {}), RegBody({}, {WeakPw}, {GoodName}, {})}

LoginBodies ==
    {Body([email |-> e, password |-> p]) :
        e \in {{EmailARaw}, {EmailD}}, p \in {{GoodPw}, {OtherPw}}}
    \cup {Body([email |-> {}, password |-> {GoodPw}]),
          Body([email |-> {EmailARaw}, password |-> {}])}

Hi == <<"h", "i">>
UserTurn == <<Msg("user", Hi)>>
AssistantLast == <<Msg("user", Hi), Msg("assistant", Hi)>>

ChatBody(m, h, k) == Body([model |-> m, messages |-> h, conversation_id |-> k])

\* an id no conversation has
NoSuchConv == "c0"

\* a first turn for each model name, and bodies that differ from it in the
\* history or in the conversation they name
ChatBodies ==
    {ChatBody(m, {UserTurn}, {}) :
        m \in Options({"openai", "gemini", "claude", "unknown"})}
    \cup {ChatBody({m}, {UserTurn}, {"c1"}) : m \in {"openai", "unknown"}}
    \cup {ChatBody({"openai"}, {}, {}),
          ChatBody({""}, {UserTurn}, {}),
          ChatBody({"openai"}, {<<>>}, {}),
          ChatBody({"unknown"}, {AssistantLast}, {}),
          ChatBody({"unknown"}, {UserTurn}, {NoSuchConv})}

(***************************************************************************)
(* The specifications.                                                     *)
(***************************************************************************)
Init ==
    /\ now = 0
    /\ ticks = 0
    /\ users = [u \in {} |-> None]
    /\ session = [c \in Clients |-> None]
    /\ tokens = {}
    /\ conversations = [k \in {} |-> None]
    /\ messages = <<>>
    /\ usage = <<>>
    /\ req = NoRequest
    /\ resp = BaseResp
    /\ pw = <<>>
    /\ pwResult = NotRun
    /\ hits = NoHits
    /\ inflight = NoneInFlight

RegisterAny ==
    \E c \in Clients, data \in AllRegBodies :
        \E deliverable \in IF data \in GoodRegBodies THEN BOOLEAN ELSE {TRUE} :
            Register(c, data, deliverable)

LoginAny == \E data \in LoginBodies : Login("k1", data)

ReadAny ==
    \E route \in ReadRoutes, header \in Headers :
        \E id \in IF route = "conversation" THEN {"c1", NoSuchConv} ELSE {""} :
            Read("k1", route, header, id)

ChatAny ==
    \E header \in Headers, data \in ChatBodies, outcome \in ProviderOutcomes :
        /\ outcome = "error" => Get(data, "model", "") \in Providers
        /\ outcome = "null" => Get(data, "model", "") = "openai"
        /\ ChatAdmitted("k1", header, data, outcome)
        /\ WithinBounds

DeactivateAny == \E id \in DOMAIN users : Deactivate(id)

LoginOne == Login("k1", Body([email |-> {EmailARaw}, password |-> {GoodPw}]))

RegisterOne == Register("k1", GoodBody(EmailARaw), TRUE)

Next == RegisterOne \/ LoginOne \/ ReadAny \/ ChatAny

Spec == Init /\ [][Next]_vars

\* a chat request that names a conversation nobody has
ChatMiss ==
    \E header \in Headers :
        /\ ChatAdmitted("k1", header, ChatBody({"unknown"}, {UserTurn}, {NoSuchConv}),
                "ok")
        /\ WithinBounds

NextAuth ==
    RegisterOne \/ LoginAny \/ ReadAny \/ ChatMiss \/ Tick \/ DeactivateAny

SpecAuth == Init /\ [][NextAuth]_vars

NextReg == RegisterAny

SpecReg == Init /\ [][NextReg]_vars

\* the typed password, once validated, is submitted for registration
RegisterTyped ==
    /\ req.route = "-"
    /\ pwResult # NotRun
    /\ Register("k1", RegBody({EmailA}, {pw}, {GoodName}, {GoodName}), TRUE)

NextPw == TypeChar \/ ValidatePw \/ RegisterTyped

SpecPw == Init /\ [][NextPw]_vars

(***************************************************************************)
(* SpecList: the conversation list of a user who has as many               *)
(* conversations as a page holds.  The initial states are those reached    *)
(* when two users have registered and logged in at time 0 and the first    *)
(* has since opened conversations, one every ten seconds, with requests    *)
(* the model check turned down (app.py 1006-1037: the conversation is      *)
(* committed before the model is looked at).                               *)
(***************************************************************************)
MaxListed == ListLimit + 3

SeedUser == "u2"
OtherUser == "u3"

SeedUsers(t) ==
    [u \in {"u1", SeedUser, OtherUser} |->
        CASE u = "u1" -> LegacyUser(NewSessionId("k1"), 0)
          [] u = SeedUser ->
                [NewUser(GoodBody(EmailARaw), u, 0) EXCEPT !.last_login = 0,
                                                           !.last_active = t]
          [] OTHER -> [NewUser(GoodBody(EmailD), u, 0) EXCEPT !.last_login = 0]]

SeedConversations(n) ==
    [k \in {ConvIdPool[i] : i \in 1..n} |->
        LET i == CHOOSE j \in 1..n : ConvIdPool[j] = k
        IN NewConversation(SeedUser, AssistantLast, 10 * i)]

InitList ==
    \E n \in {ListLimit} :
        /\ now = 10 * n
        /\ ticks = 0
        /\ users = SeedUsers(10 * n)
        /\ session = [c \in Clients |-> IF c = "k1" THEN NewSessionId(c) ELSE None]
        /\ tokens = {generate_auth_token(u, SeedUsers(0)[u], 0, ExpiresIn) :
                        u \in {SeedUser, OtherUser}}
        /\ conversations = SeedConversations(n)
        /\ messages = <<>>
        /\ usage = <<>>
        /\ req = NoRequest
        /\ resp = BaseResp
        /\ pw = <<>>
        /\ pwResult = NotRun
        /\ hits = NoHits
        /\ inflight = NoneInFlight

\* an operator clears a conversation's active flag (no route does)
Archive(id) ==
    /\ id \in DOMAIN conversations
    /\ conversations[id].is_active
    /\ conversations' = [conversations EXCEPT ![id].is_active = FALSE]
    /\ req' = NoRequest
    /\ resp' = BaseResp
    /\ UNCHANGED <<hits, inflight>>
    /\ UNCHANGED <<now, ticks, users, session, tokens, messages, usage, pw,
                   pwResult>>

BearerHeaders == {Header("Bearer", tok) : tok \in tokens}

\* the oldest or the newest of the seeded conversations is archived
ArchiveOne ==
    /\ \A k \in DOMAIN conversations : conversations[k].is_active
    /\ \E id \in {ConvIdPool[1], ConvIdPool[ListLimit - 1]} : Archive(id)

ListTick == ticks < 1 /\ Tick

\* a request that opens a conversation, or a turn in the oldest one
ChatListed ==
    \E header \in BearerHeaders :
        \E data \in {ChatBody({"unknown"}, {AssistantLast}, {}),
                      ChatBody({"openai"}, {UserTurn}, {ConvIdPool[1]})} :
            /\ ChatAdmitted("k1", header, data, "ok")
            /\ Cardinality(DOMAIN conversations') <= MaxListed
            /\ Len(messages') <= MaxMsgs
            /\ Len(usage') <= MaxUsage

ListRead ==
    \E header \in BearerHeaders : Read("k1", "conversations", header, "")

NextList == ChatListed \/ ListRead \/ ListTick \/ ArchiveOne

SpecList == InitList /\ [][NextList]_vars

(***************************************************************************)
(* Properties.                                                             *)
(***************************************************************************)
Protected == ReadRoutes \cup {"chat"}

\* the header has the form "Bearer <token>"
BearerForm(header) == header.present /\ header.scheme = "Bearer"

Range(q) == {q[i] : i \in DOMAIN q}

C2_DeactivationRevokes ==
    [][/\ \A tok \in tokens' :
             ~users'[tok.payload.user_id].is_active =>
                 verify_auth_token(tok, users', now') = None
       /\ (/\ req'.route \in Protected
           /\ BearerForm(req'.header)
           /\ req'.header.token \in tokens
           /\ ~users[req'.header.token.payload.user_id].is_active) =>
              /\ resp'.status = 401
              /\ resp'.error = "Invalid or expired token"
              /\ ~resp'.handler
              /\ users' = HookUsers(req'.client, req'.route)]_vars

\* C2 happens: a protected request carries an issued, unexpired token of a
\* deactivated user and is answered 401.
C2_Witness ==
    /\ req.route \in Protected
    /\ BearerForm(req.header)
    /\ req.header.token \in tokens
    /\ ~users[req.header.token.payload.user_id].is_active
    /\ ~Expired(req.header.token.payload.exp, now, Leeway)
    /\ resp.status = 401

\* C3: a protected request whose bearer token verifies to an active user
\* runs the view function with that user attached, and that user's
\* last_active is the time of the request, already so when the view
\* function reads the user (the body /api/auth/me returns shows it).
C3_AuthenticatedTouched ==
    [][(/\ req'.route \in Protected
        /\ BearerForm(req'.header)
        /\ verify_auth_token(req'.header.token, users, now) # None) =>
           LET u == verify_auth_token(req'.header.token, users, now)
           IN /\ resp'.handler
              /\ resp'.status # 401
              /\ resp'.user = u
              /\ users'[u].last_active = now'
              /\ req'.route = "me" => resp'.body.last_active = now']_vars

\* C3 happens: /api/auth/me answers an authenticated request made later
\* than the login, and last_active has moved past last_login.
C3_Witness ==
    /\ req.route = "me"
    /\ resp.status = 200
    /\ resp.handler
    /\ users[resp.user].last_login # NoTime
    /\ users[resp.user].last_login < now
    /\ users[resp.user].last_active = now

\* C4: for every active user u, the token u generates verifies, at the time
\* of issuance, to u itself; so does the token a successful login returns.
C4_RoundTrip ==
    /\ \A u \in DOMAIN users :
          users[u].is_active =>
              verify_auth_token(generate_auth_token(u, users[u], now, ExpiresIn),
                                users, now) = u
    /\ (req.route = "login" /\ resp.status = 200) =>
          \A tok \in resp.issued : verify_auth_token(tok, users, now) = resp.user

\* C4 happens: a login has just issued a token, at a time other than 0 and
\* with more than one user in the table.
C4_Witness ==
    /\ req.route = "login"
    /\ resp.status = 200
    /\ resp.issued # {}
    /\ now > 0
    /\ Cardinality(DOMAIN users) >= 2

\* C5 as stated: at every time later than a token's exp, the token verifies
\* to None.
C5_AsStated ==
    \A tok \in Presentable :
        now > tok.payload.exp => verify_auth_token(tok, users, now) = None

\* C5 amended: at every time later than exp + 10 s (the leeway) a token
\* verifies to None; earlier than exp + 10 s an issued token of an active
\* user still verifies to that user.
C5_ExpiredBeyondLeeway ==
    /\ \A tok \in Presentable :
          now > tok.payload.exp + Leeway =>
              verify_auth_token(tok, users, now) = None
    /\ \A tok \in tokens :
          (now < tok.payload.exp + Leeway
             /\ users[tok.payload.user_id].is_active) =>
              verify_auth_token(tok, users, now) = tok.payload.user_id

\* C5 happens: an issued token of an active user is past exp + 10 s.
C5_Witness ==
    \E tok \in tokens :
        /\ now > tok.payload.exp + Leeway
        /\ users[tok.payload.user_id].is_active
        /\ verify_auth_token(tok, users, now) = None

RequiredFields == {"email", "password", "first_name", "last_name"}

\* C6: a registration body from which a required field (email, password,
\* first_name, last_name) is missing is answered 400 with an errors object
\* that has an entry for every missing field, and the handler adds no user:
\* the users table is as the before_request hook left it.
C6_MissingFieldRejected ==
    [][req'.route = "register" =>
         LET missing == RequiredFields \ DOMAIN req'.data
         IN missing # {} =>
              /\ resp'.status = 400
              /\ missing \subseteq DOMAIN resp'.errors
              /\ \A f \in missing : resp'.errors[f] # <<>>
              /\ users' = HookUsers(req'.client, "register")
              /\ Registered(users') = Registered(users)]_vars

\* C6 happens: a body lacking email and last_name is answered 400 with both
\* fields named.
C6_Witness ==
    /\ req.route = "register"
    /\ RequiredFields \ DOMAIN req.data = {"email", "last_name"}
    /\ resp.status = 400
    /\ {"email", "last_name"} \subseteq DOMAIN resp.errors

\* the rules a password violates, each named by its message
ViolatedRules(p) ==
    {m \in {ErrLength, ErrUpper, ErrLower, ErrDigit, ErrSpecial} :
        \/ m = ErrLength /\ Len(p) < 8
        \/ m = ErrUpper /\ \A i \in DOMAIN p : p[i] \notin UpperChars
        \/ m = ErrLower /\ \A i \in DOMAIN p : p[i] \notin LowerChars
        \/ m = ErrDigit /\ \A i \in DOMAIN p : p[i] \notin DigitChars
        \/ m = ErrSpecial /\ \A i \in DOMAIN p : p[i] \notin SpecialChars}

\* the list holds each violated rule's message once and nothing else
ListsViolations(errors, p) ==
    /\ Range(errors) = ViolatedRules(p)
    /\ Len(errors) = Cardinality(ViolatedRules(p))

\* C7 as stated: validate_password returns exactly the violated rules, and a
\* registration with any password that violates a rule is answered 400 with
\* errors.password listing one message per violated rule.
C7_AsStated ==
    /\ pwResult # NotRun => ListsViolations(pwResult, pw)
    /\ (req.route = "register" /\ ViolatedRules(req.data.password) # {}) =>
          /\ resp.status = 400
          /\ "password" \in DOMAIN resp.errors
          /\ ListsViolations(resp.errors.password, req.data.password)

\* C7 amended: validate_password returns exactly the violated rules; a
\* registration with a non-empty password that violates a rule is answered
\* 400 with errors.password listing one message per violated rule; with an
\* empty password it is answered 400 with the one message "Password is
\* required".
C7_ViolatedRulesListed ==
    /\ pwResult # NotRun => ListsViolations(pwResult, pw)
    /\ (req.route = "register" /\ ViolatedRules(req.data.password) # {}) =>
          /\ resp.status = 400
          /\ "password" \in DOMAIN resp.errors
          /\ IF req.data.password = <<>>
             THEN resp.errors.password = <<"Password is required">>
             ELSE ListsViolations(resp.errors.password, req.data.password)

\* C7 happens: a registration with a password of full length that breaks
\* two rules or more is answered 400.
C7_Witness ==
    /\ req.route = "register"
    /\ Len(req.data.password) >= 8
    /\ Cardinality(ViolatedRules(req.data.password)) >= 2
    /\ resp.status = 400
    /\ Len(resp.errors.password) >= 2

\* C8: a valid registration whose normalized (trimmed, lower-cased) email
\* no user has is answered 201, one whose normalized email a user already
\* has is answered 409 and adds nothing; either way exactly one user record
\* has that email afterwards.
C8_DuplicateEmailConflict ==
    [][(req'.route = "register"
          /\ DOMAIN FieldErrors(req'.data, req'.deliverable) = RequiredFields
          /\ \A f \in RequiredFields :
                FieldErrors(req'.data, req'.deliverable)[f] = <<>>) =>
         LET e == Lower(Strip(req'.data.email))
             before == {u \in DOMAIN users : users[u].email = e}
             after == {u \in DOMAIN users' : users'[u].email = e}
         IN /\ before = {} => resp'.status = 201
            /\ before # {} =>
                  /\ resp'.status = 409
                  /\ "email" \in DOMAIN resp'.errors
                  /\ users' = HookUsers(req'.client, "register")
            /\ Cardinality(after) = 1]_vars

\* C8 happens: an email that differs from a registered one in case and
\* surrounding blanks only is answered 409.
C8_Witness ==
    /\ req.route = "register"
    /\ resp.status = 409
    /\ req.data.email = EmailARaw
    /\ Cardinality({u \in DOMAIN users : users[u].email = EmailA}) = 1

\* C9: a login is answered 200 with a token only when the email is a
\* user's, the password hashes to that user's password_hash and the user is
\* active; a login with an email and a password of which the email is
\* nobody's, the password is wrong or the account is deactivated is
\* answered 401, issues no token and leaves every last_login and
\* last_active as the before_request hook left it.
C9_LoginOnlyWhenEntitled ==
    [][req'.route = "login" =>
         LET email == Lower(Strip(Get(req'.data, "email", <<>>)))
             password == Get(req'.data, "password", <<>>)
             entitled == {u \in DOMAIN users :
                             /\ users[u].email = email
                             /\ users[u].password_hash =
                                    generate_password_hash(password)
                             /\ users[u].is_active}
         IN /\ resp'.status = 200 =>
                  /\ resp'.user \in entitled
                  /\ resp'.issued # {}
                  /\ resp'.issued \subseteq tokens'
            /\ (email # <<>> /\ password # <<>> /\ entitled = {}) =>
                  /\ resp'.status = 401
                  /\ resp'.issued = {}
                  /\ tokens' = tokens
                  /\ users' = HookUsers(req'.client, "login")]_vars

\* C9 happens: the right password of a deactivated account, which holds a
\* token from an earlier login, is answered 401.
C9_Witness ==
    /\ req.route = "login"
    /\ resp.status = 401
    /\ resp.error = "Account is deactivated"
    /\ resp.issued = {}
    /\ tokens # {}

\* the request names a model outside the three and has messages
UnknownModelChat(r) ==
    /\ r.route = "chat"
    /\ "model" \in DOMAIN r.data
    /\ r.data.model \notin {"", "openai", "gemini", "claude"}
    /\ Get(r.data, "messages", <<>>) # <<>>

Authenticated(r) ==
    /\ BearerForm(r.header)
    /\ verify_auth_token(r.header.token, users, now) # None

(***************************************************************************)
(* SpecOwn: two users, their conversations, and requests of each for the   *)
(* first conversation.                                                     *)
(***************************************************************************)
RegisterTwo ==
    \E e \in {EmailARaw, EmailD} : Register("k1", GoodBody(e), TRUE)

LoginTwo ==
    \E e \in {EmailARaw, EmailD} :
        Login("k1", Body([email |-> {e}, password |-> {GoodPw}]))

ChatOwn ==
    \E header \in BearerHeaders :
        \E data \in {ChatBody({"openai"}, {UserTurn}, {}),
                      ChatBody({"openai"}, {UserTurn}, {ConvIdPool[1]}),
                      ChatBody({"unknown"}, {UserTurn}, {ConvIdPool[1]})} :
            /\ ChatAdmitted("k1", header, data, "ok")
            /\ WithinBounds

ReadOwn ==
    \E header \in BearerHeaders, id \in {ConvIdPool[1], NoSuchConv} :
        Read("k1", "conversation", header, id)

NextOwn == RegisterTwo \/ LoginTwo \/ ChatOwn \/ ReadOwn

SpecOwn == Init /\ [][NextOwn]_vars


(***************************************************************************)
(* SpecVerify: registrations and verify-email requests of two clients.     *)
(***************************************************************************)
BogusToken == "evt-none"

\* a token key that is absent, empty, never issued, or issued to one of the
\* first rows of the users table
VerifyBodies ==
    {Body([token |-> {}]), Body([token |-> {""}]),
     Body([token |-> {BogusToken}])}
        \cup {Body([token |-> {VerificationToken(UserIdPool[i])}]) : i \in 1..4}

RegisterByAny ==
    \E c \in Clients, e \in {EmailARaw, EmailD} :
        Register(c, GoodBody(e), TRUE)

VerifyAny == \E c \in Clients, data \in VerifyBodies : VerifyEmail(c, data)

NextVerify == RegisterByAny \/ VerifyAny

SpecVerify == Init /\ [][NextVerify]_vars


(***************************************************************************)
(* SpecRate: chat requests of two client addresses under the limiter,      *)
(* with the clock moving.  The initial state is the one reached when two   *)
(* users have registered and logged in at time 0.                          *)
(***************************************************************************)
MaxRateTicks == 2

InitRate ==
    /\ now = 0
    /\ ticks = 0
    /\ users = SeedUsers(0)
    /\ session = [c \in Clients |-> IF c = "k1" THEN NewSessionId(c) ELSE None]
    /\ tokens = {generate_auth_token(SeedUser, SeedUsers(0)[SeedUser], 0,
                                     ExpiresIn)}
    /\ conversations = [k \in {} |-> None]
    /\ messages = <<>>
    /\ usage = <<>>
    /\ req = NoRequest
    /\ resp = BaseResp
    /\ pw = <<>>
    /\ pwResult = NotRun
    /\ hits = NoHits
    /\ inflight = NoneInFlight

\* a request that opens a conversation, one that names no model, one for a
\* conversation that does not exist
ChatRate ==
    \E c \in Clients, header \in BearerHeaders :
        \E data \in {ChatBody({"openai"}, {UserTurn}, {}),
                      ChatBody({""}, {UserTurn}, {}),
                      ChatBody({"openai"}, {UserTurn}, {NoSuchConv})} :
            /\ ChatLimited(c, header, data, "ok")
            /\ WithinBounds

\* time passes: a few seconds, or more than a window
RateSteps == {5, WindowSeconds + 5}

RateTick ==
    /\ ticks < MaxRateTicks
    /\ \E d \in RateSteps : now' = now + d
    /\ ticks' = ticks + 1
    /\ req' = NoRequest
    /\ resp' = BaseResp
    /\ UNCHANGED <<users, session, tokens, conversations, messages, usage, pw,
                   pwResult, hits, inflight>>

NextRate == ChatRate \/ RateTick

SpecRate == InitRate /\ [][NextRate]_vars


(***************************************************************************)
(* SpecStale: a client whose session cookie names no user.  The initial    *)
(* state is the one reached when the client's first request was a          *)
(* registration during which the hook's own commit failed (app.py 746-750: *)
(* the cookie is set, the legacy row is rolled back), followed by a login. *)
(***************************************************************************)
StaleUser == "u1"

StaleUsers ==
    [u \in {StaleUser} |->
        [NewUser(GoodBody(EmailARaw), u, 0) EXCEPT !.last_login = 0]]

InitStale ==
    /\ now = 0
    /\ ticks = 0
    /\ users = StaleUsers
    /\ session = [c \in Clients |-> IF c = "k1" THEN NewSessionId(c) ELSE None]
    /\ tokens = {generate_auth_token(StaleUser, StaleUsers[StaleUser], 0,
                                     ExpiresIn)}
    /\ conversations = [k \in {} |-> None]
    /\ messages = <<>>
    /\ usage = <<>>
    /\ req = NoRequest
    /\ resp = BaseResp
    /\ pw = <<>>
    /\ pwResult = NotRun
    /\ hits = NoHits
    /\ inflight = NoneInFlight

ReadStale ==
    \E route \in {"conversations", "usage"}, header \in Headers :
        Read("k1", route, header, "")

ChatStale ==
    \E header \in BearerHeaders :
        /\ ChatAdmitted("k1", header, ChatBody({"openai"}, {UserTurn}, {}), "ok")
        /\ WithinBounds

NextStale == ReadStale \/ ChatStale \/ Tick

SpecStale == InitStale /\ [][NextStale]_vars


(***************************************************************************)
(* SpecConv: one user's conversations over time: chat requests that open   *)
(* a conversation or take a turn in the first one, with a provider that    *)
(* answers or fails, and a clock that moves.                               *)
(***************************************************************************)
MaxConvTicks == 2

ConvTick == ticks < MaxConvTicks /\ Tick

ChatConv ==
    \E header \in BearerHeaders, outcome \in {"ok", "error"} :
        \E data \in {ChatBody({"openai"}, {UserTurn}, {}),
                      ChatBody({"openai"}, {UserTurn}, {ConvIdPool[1]}),
                      ChatBody({"unknown"}, {UserTurn}, {ConvIdPool[1]})} :
            /\ outcome = "error" => Get(data, "model", "") \in Providers
            /\ ChatAdmitted("k1", header, data, outcome)
            /\ WithinBounds

NextConv == RegisterOne \/ LoginOne \/ ChatConv \/ ConvTick

SpecConv == Init /\ [][NextConv]_vars


(***************************************************************************)
(* SpecTurn: chat requests of one user with histories of one, two and      *)
(* three messages, ending in a user's or in an assistant's message.        *)
(***************************************************************************)
Yo == <<"y", "o">>
ThreeTurns == <<Msg("user", Hi), Msg("assistant", Hi), Msg("user", Yo)>>
AssistantOnly == <<Msg("assistant", Yo)>>

ChatTurn ==
    \E header \in BearerHeaders, outcome \in {"ok", "error"} :
        \E m \in {"openai", "unknown"}, k \in {{}, {ConvIdPool[1]}} :
            \E h \in {UserTurn, AssistantLast, ThreeTurns, AssistantOnly} :
                /\ outcome = "error" => m \in Providers
                /\ ChatAdmitted("k1", header, ChatBody({m}, {h}, k), outcome)
                /\ WithinBounds

NextTurn == RegisterOne \/ LoginOne \/ ChatTurn

SpecTurn == Init /\ [][NextTurn]_vars


(***************************************************************************)
(* SpecFail: first turns of one user with each provider, under every       *)
(* outcome of a turn.                                                      *)
(***************************************************************************)
ChatFail ==
    \E header \in BearerHeaders, outcome \in ChatOutcomes, m \in Providers :
        /\ outcome = "null" => m = "openai"
        /\ ChatAdmitted("k1", header, ChatBody({m}, {UserTurn}, {}), outcome)
        /\ WithinBounds

NextFail == RegisterOne \/ LoginOne \/ ChatFail

SpecFail == Init /\ [][NextFail]_vars


(***************************************************************************)
(* SpecHook: requests of two clients, with and without a session cookie,   *)
(* while the hook's commit of the legacy user goes through or fails.       *)
(***************************************************************************)
ReadHook ==
    \E c \in Clients, route \in {"me", "conversations"}, commits \in BOOLEAN :
        \E header \in {NoHeader} \cup BearerHeaders :
            ReadWith(c, route, header, "", commits)

NextHook == RegisterOne \/ LoginOne \/ ReadHook

SpecHook == Init /\ [][NextHook]_vars


(***************************************************************************)
(* SpecRaceReg: two workers, each serving one registration, for the same   *)
(* address written in two ways or for another one.                         *)
(***************************************************************************)
ClientOf(w) == IF w = "w1" THEN "k1" ELSE "k2"

RaceRegisterBegin ==
    \E w \in Workers :
        \E data \in {GoodBody(EmailARaw), GoodBody(EmailA), GoodBody(EmailD),
                      GoodBody(EmailBad)} :
            RegisterBegin(w, ClientOf(w), data, TRUE)

RaceRegisterCommit == \E w \in Workers : RegisterCommit(w)

NextRaceReg == RaceRegisterBegin \/ RaceRegisterCommit

SpecRaceReg == Init /\ [][NextRaceReg]_vars


(***************************************************************************)
(* POST /api/chat as two steps of one worker (app.py 973-1077): the        *)
(* handler up to the commit of the user's message (line 1025), and the     *)
(* handler from the dispatch on the model (line 1027) to its answer.  The  *)
(* provider is called between the two commits, and other workers serve     *)
(* their requests meanwhile; nothing in the handler locks the conversation.*)
(***************************************************************************)
\* a faulty variant: the user's message is not written before the dispatch
PersistNothing(msgs, conv, history, t) == msgs

\* app.py 1015-1025
PersistUserMessage(msgs, conv, history, t) ==
    IF LastIsUser(history)
    THEN Append(msgs, MessageRow(conv, "user",
                                 history[Len(history)].content, None, t))
    ELSE msgs

Dispatching(data, user, conv) ==
    [pc |-> "chat-dispatch", route |-> "chat", data |-> data, user |-> user,
     conv |-> conv]

ChatBegin(w, c, header, data) ==
    LET tbl == HookUsers(c, "chat")
        auth == auth_required(header, tbl, now)
        user == auth.user
        model == Get(data, "model", "")
        history == Get(data, "messages", <<>>)
        conversation_id == Get(data, "conversation_id", "")
        creates == conversation_id = ""
        conv == IF creates THEN FirstFree(ConvIdPool, DOMAIN conversations)
                ELSE conversation_id
    IN /\ inflight[w].pc = "idle"
       /\ session' = HookSession(c, "chat")
       /\ IF ~auth.ok
          THEN /\ users' = tbl
               /\ inflight' = [inflight EXCEPT
                     ![w] = Answered("chat", data, 401, auth.error)]
               /\ UNCHANGED <<conversations, messages>>
          ELSE /\ users' = Touch(tbl, user, now)
               /\ IF MissingInput(model, history)
                  THEN /\ inflight' = [inflight EXCEPT
                             ![w] = Answered("chat", data, 400,
                                        "Model and messages are required")]
                       /\ UNCHANGED <<conversations, messages>>
                  ELSE IF ~creates /\ ~OwnedBy(conversation_id, user)
                  THEN /\ inflight' = [inflight EXCEPT
                             ![w] = Answered("chat", data, 404,
                                             "Conversation not found")]
                       /\ UNCHANGED <<conversations, messages>>
                  ELSE /\ conversations' =
                             IF creates
                             THEN [k \in DOMAIN conversations \cup {conv} |->
                                      IF k = conv
                                      THEN NewConversation(user, history, now)
                                      ELSE conversations[k]]
                             ELSE conversations
                       /\ messages' =
                             PersistUserMessage(messages, conv, history, now)
                       /\ inflight' = [inflight EXCEPT
                             ![w] = Dispatching(data, user, conv)]
       /\ UNCHANGED <<now, ticks, tokens, usage, req, resp, pw, pwResult, hits>>

ChatFinish(w, outcome) ==
    LET data == inflight[w].data
        user == inflight[w].user
        conv == inflight[w].conv
        model == Get(data, "model", "")
        ai_response == CallProvider(model, outcome)
    IN /\ inflight[w].pc = "chat-dispatch"
       /\ IF model \notin Providers
          THEN /\ inflight' = [inflight EXCEPT
                     ![w] = Answered("chat", data, 400,
                                     "Invalid model selected")]
               /\ UNCHANGED <<conversations, messages, usage>>
          ELSE IF ai_response.error # None
          THEN /\ inflight' = [inflight EXCEPT
                     ![w] = Answered("chat", data, 500, ai_response.error)]
               /\ usage' = RecordUsage(usage, user, model, outcome, now)
               /\ UNCHANGED <<conversations, messages>>
          ELSE IF outcome = "commitfails"
          THEN /\ inflight' = [inflight EXCEPT
                     ![w] = Answered("chat", data, 500,
                                     UnexpectedError(CommitErrorText))]
               /\ usage' = RecordUsage(usage, user, model, outcome, now)
               /\ UNCHANGED <<conversations, messages>>
          ELSE /\ inflight' = [inflight EXCEPT
                     ![w] = Answered("chat", data, 200, None)]
               /\ conversations' =
                     [conversations EXCEPT ![conv].updated_at = now]
               /\ messages' = Append(messages,
                      MessageRow(conv, "assistant", ai_response.response,
                                 ai_response.model, now))
               /\ usage' = RecordUsage(usage, user, model, outcome, now)
       /\ UNCHANGED <<now, ticks, users, session, tokens, req, resp, pw,
                      pwResult, hits>>

(***************************************************************************)
(* SpecRaceChat: one user opens a conversation with a first turn; then two *)
(* workers each serve one further turn on that conversation, the one with  *)
(* OpenAI and the other with Gemini.                                       *)
(***************************************************************************)
MaxRaceMsgs == 6

Hey == <<"h", "e", "y">>
HeyTurn == <<Msg("user", Hi), Msg("assistant", Hi), Msg("user", Hey)>>
YoTurn == <<Msg("user", Hi), Msg("assistant", Hi), Msg("user", Yo)>>

OpenConversation ==
    \E header \in BearerHeaders :
        /\ DOMAIN conversations = {}
        /\ ChatAdmitted("k1", header, ChatBody({"claude"}, {UserTurn}, {}),
                        "ok")

TurnOf(w) ==
    IF w = "w1"
    THEN ChatBody({"openai"}, {HeyTurn}, {ConvIdPool[1]})
    ELSE ChatBody({"gemini"}, {YoTurn}, {ConvIdPool[1]})

RaceChatBegin ==
    \E w \in Workers, header \in BearerHeaders :
        /\ ChatBegin(w, "k1", header, TurnOf(w))
        /\ Len(messages') <= MaxRaceMsgs

RaceChatFinish ==
    \E w \in Workers, outcome \in {"ok", "error"} :
        /\ ChatFinish(w, outcome)
        /\ Len(messages') <= MaxRaceMsgs

NextRaceChat ==
    RegisterOne \/ LoginOne \/ OpenConversation \/ RaceChatBegin
        \/ RaceChatFinish

SpecRaceChat == Init /\ [][NextRaceChat]_vars


C12_NewConversationTwoMessages ==
    [][(/\ req'.route = "chat"
        /\ Authenticated(req')
        /\ Get(req'.data, "model", "") \in {"openai", "gemini", "claude"}
        /\ "conversation_id" \notin DOMAIN req'.data
        /\ Len(Get(req'.data, "messages", <<>>)) = 1
        /\ req'.data.messages[1].role = "user"
        /\ resp'.status = 200) =>
           LET new == DOMAIN conversations' \ DOMAIN conversations
               n == Len(messages)
           IN /\ Cardinality(new) = 1
              /\ \A k \in DOMAIN conversations : conversations'[k] = conversations[k]
              /\ Len(messages') = n + 2
              /\ SubSeq(messages', 1, n) = messages
              /\ \A c \in new :
                    /\ conversations'[c].user_id =
                           verify_auth_token(req'.header.token, users, now)
                    /\ resp'.body.conversation_id = c
                    /\ messages'[n + 1].conversation_id = c
                    /\ messages'[n + 1].role = "user"
                    /\ messages'[n + 1].content = req'.data.messages[1].content
                    /\ messages'[n + 2].conversation_id = c
                    /\ messages'[n + 2].role = "assistant"
                    /\ messages'[n + 2].content = resp'.body.response]_vars

\* C12 happens: a first turn is answered 200 when the caller already has a
\* conversation, and the two last messages are the new conversation's.
C12_Witness ==
    /\ req.route = "chat"
    /\ resp.status = 200
    /\ "conversation_id" \notin DOMAIN req.data
    /\ Cardinality(DOMAIN conversations) = 2
    /\ Len(messages) >= 2
    /\ messages[Len(messages) - 1].role = "user"
    /\ messages[Len(messages)].role = "assistant"
    /\ messages[Len(messages)].conversation_id = resp.body.conversation_id

\* the rows a step appends to the api_usage table
NewUsageRows == SubSeq(usage', Len(usage) + 1, Len(usage'))

\* C13: when the provider dispatch reports an error for an authenticated
\* chat request whose last message has role "user", the response is 500,
\* the user's message is the one message appended, no assistant message is
\* appended, and exactly one usage row of status 500 is written, for the
\* caller.
C13_ProviderErrorRecorded ==
    [][(/\ req'.route = "chat"
        /\ Authenticated(req')
        /\ resp'.provider_calls = 1
        /\ resp'.error # None
        /\ req'.data.messages[Len(req'.data.messages)].role = "user") =>
           LET n == Len(messages)
               failed == {i \in DOMAIN NewUsageRows :
                             NewUsageRows[i].status_code = 500}
           IN /\ resp'.status = 500
              /\ Len(messages') = n + 1
              /\ SubSeq(messages', 1, n) = messages
              /\ messages'[n + 1].role = "user"
              /\ messages'[n + 1].content =
                     req'.data.messages[Len(req'.data.messages)].content
              /\ \A i \in DOMAIN messages' \ DOMAIN messages :
                    messages'[i].role # "assistant"
              /\ Cardinality(failed) = 1
              /\ \A i \in failed :
                    NewUsageRows[i].user_id =
                        verify_auth_token(req'.header.token, users, now)]_vars

\* C13 happens: a turn in an existing conversation meets a provider error;
\* the last message is the user's and the last usage row has status 500.
C13_Witness ==
    /\ req.route = "chat"
    /\ "conversation_id" \in DOMAIN req.data
    /\ resp.status = 500
    /\ resp.provider_calls = 1
    /\ messages # <<>>
    /\ messages[Len(messages)].role = "user"
    /\ messages[Len(messages)].conversation_id = req.data.conversation_id
    /\ usage # <<>>
    /\ usage[Len(usage)].status_code = 500

\* C19 as stated: a chat request that calls a provider appends exactly one
\* usage row, for the caller: of status 200 if the call returned a result
\* payload, of status 500 if it returned an error payload.
C19_AsStated ==
    [][(/\ req'.route = "chat"
        /\ resp'.provider_calls = 1) =>
           /\ Len(NewUsageRows) = 1
           /\ NewUsageRows[1].user_id = resp'.user
           /\ NewUsageRows[1].status_code =
                  IF resp'.error = None THEN 200 ELSE 500]_vars

\* the conversations user u may be shown
Listable(u) ==
    {k \in DOMAIN conversations :
        conversations[k].user_id = u /\ conversations[k].is_active}

\* q lists conversations of u only, active ones only, none twice, at most
\* 50, the most recently updated of them, latest first
GoodList(q, u) ==
    LET mine == Listable(u)
        left == mine \ Range(q)
    IN /\ Range(q) \subseteq mine
       /\ Cardinality(Range(q)) = Len(q)
       /\ Len(q) <= 50
       /\ Len(q) = IF Cardinality(mine) < 50 THEN Cardinality(mine) ELSE 50
       /\ \A i \in 1..(Len(q) - 1) :
             conversations[q[i]].updated_at >= conversations[q[i + 1]].updated_at
       /\ \A i \in DOMAIN q : \A k \in left :
             conversations[q[i]].updated_at >= conversations[k].updated_at

\* C14: in every reachable state, the body of a 200 response of
\* GET /api/conversations to user u lists only conversations that u owns
\* and that are active, at most 50 of them, ordered by updated_at
\* descending (the route leaves the conversations as it read them).
C14_ListOwnedActiveNewestFirst ==
    (req.route = "conversations" /\ resp.status = 200) =>
        GoodList(resp.body, resp.user)

\* C14 happens: a user with more than 50 active conversations, one of them
\* updated after newer ones were opened, is shown 50, while another user's
\* conversation and an archived one exist.
C14_Witness ==
    /\ req.route = "conversations"
    /\ resp.status = 200
    /\ Len(resp.body) = 50
    /\ Cardinality(Listable(resp.user)) > 50
    /\ resp.body[1] = "c1"
    /\ \E k \in DOMAIN conversations : conversations[k].user_id # resp.user
    /\ \E k \in DOMAIN conversations : ~conversations[k].is_active

\* the conversation exists and belongs to somebody other than the caller
Foreign(id, r) ==
    /\ id \in DOMAIN conversations
    /\ conversations[id].user_id # verify_auth_token(r.header.token, users, now)

\* C15: GET /api/conversations/<id> and POST /api/chat with a model,
\* messages and conversation_id = <id>, sent by an authenticated user who
\* does not own conversation <id>, are answered 404 "Conversation not
\* found" with no data in the body; the chat request changes no
\* conversation, appends no message, writes no usage row and calls no
\* provider.
C15_OnlyOwnerReaches ==
    [][/\ (/\ req'.route = "conversation"
           /\ Authenticated(req')
           /\ Foreign(req'.id, req')) =>
              /\ resp'.status = 404
              /\ resp'.error = "Conversation not found"
              /\ resp'.body = <<>>
       /\ (/\ req'.route = "chat"
           /\ Authenticated(req')
           /\ Get(req'.data, "model", "") # ""
           /\ Get(req'.data, "messages", <<>>) # <<>>
           /\ "conversation_id" \in DOMAIN req'.data
           /\ Foreign(req'.data.conversation_id, req')) =>
              /\ resp'.status = 404
              /\ resp'.error = "Conversation not found"
              /\ resp'.body = <<>>
              /\ resp'.provider_calls = 0
              /\ UNCHANGED <<conversations, messages, usage>>]_vars

\* C15 happens: a user asks for another user's conversation, which holds
\* messages, and is answered 404.
C15_Witness ==
    /\ req.route = "conversation"
    /\ resp.user # None
    /\ req.id \in DOMAIN conversations
    /\ conversations[req.id].user_id # resp.user
    /\ MessagesOf(req.id) # <<>>
    /\ resp.status = 404

\* the users who hold the token as their current one
HoldersOf(token) ==
    {u \in DOMAIN users : users[u].email_verification_token = token}

\* the token was issued to a user who has since been verified
Consumed(token) ==
    \E u \in DOMAIN users :
        /\ users[u].session_id = None
        /\ token = "evt-" \o u
        /\ users[u].is_verified

\* C16: a verify-email request with a user's current token is answered 200,
\* sets that user's verified flag and clears the stored token, and touches
\* no other user; a verify-email request with a token that was consumed
\* before is answered 400 and leaves every user record as it was (the only
\* possible addition is the legacy row the session hook makes for a client
\* without a cookie); a cleared token stays cleared.
C16_TokenSingleUse ==
    [][/\ req'.route = "verify-email" =>
            LET token == IF "token" \in DOMAIN req'.data
                         THEN req'.data.token ELSE ""
            IN /\ (token # "" /\ HoldersOf(token) # {}) =>
                     /\ resp'.status = 200
                     /\ \E u \in HoldersOf(token) :
                           /\ users'[u].is_verified
                           /\ users'[u].email_verification_token = None
                           /\ \A v \in DOMAIN users \ {u} : users'[v] = users[v]
               /\ Consumed(token) =>
                     /\ resp'.status = 400
                     /\ \A v \in DOMAIN users : users'[v] = users[v]
                     /\ \A v \in DOMAIN users' \ DOMAIN users :
                           users'[v].session_id # None
       /\ \A u \in DOMAIN users :
             users[u].email_verification_token = None =>
                 users'[u].email_verification_token = None]_vars

\* C16 happens: a token that verified its user is sent again and refused,
\* while another user still waits for verification.
C16_Witness ==
    /\ req.route = "verify-email"
    /\ "token" \in DOMAIN req.data
    /\ Consumed(req.data.token)
    /\ resp.status = 400
    /\ resp.error = "Invalid verification token"
    /\ \E v \in DOMAIN users : v \in Registered(users) /\ ~users[v].is_verified

\* the chat requests the address has made in the window that is open now
CountedNow(c) ==
    IF hits[c].count > 0 /\ now < hits[c].start + 60 THEN hits[c].count ELSE 0

StaleSession(c) ==
    /\ session[c] # None
    /\ \A u \in DOMAIN users : users[u].session_id # session[c]

ListOrUsage == {"conversations", "usage"}

AppendsTo(c) ==
    \E i \in (Len(messages) + 1)..Len(messages') :
        messages'[i].conversation_id = c

\* C20 as stated: every chat request that persists a message into an
\* existing conversation c, at a time later than c.updated_at, leaves
\* c.updated_at strictly later than it was, also when the provider fails
\* after the user message was persisted; and updated_at never decreases.
C20_AsStated ==
    [][\A c \in DOMAIN conversations :
          /\ (AppendsTo(c) /\ now > conversations[c].updated_at) =>
                conversations'[c].updated_at > conversations[c].updated_at
          /\ conversations'[c].updated_at >= conversations[c].updated_at]_vars

\* the half of C20 that the code keeps: updated_at never decreases
UpdatedAtNeverDecreases ==
    [][\A c \in DOMAIN conversations :
          conversations'[c].updated_at >= conversations[c].updated_at]_vars

\* the rows the step appends to the messages table
NewMessages == SubSeq(messages', Len(messages) + 1, Len(messages'))

\* C21: a chat request appends at most one message of role "user"; if it
\* appends one, that is the first row it writes, the last supplied message
\* has role "user" and the row carries that message's content; no earlier
\* message of the history is written again and the rows already in the table
\* stay as they are; when the last supplied message is not a user's, no user
\* message is written; and whenever the provider was called for a history
\* ending in a user's message, that message is in the table, whatever the
\* provider answered.
C21_OnlyLastUserMessage ==
    [][req'.route = "chat" =>
          LET history == IF "messages" \in DOMAIN req'.data
                         THEN req'.data.messages ELSE <<>>
              endsWithUser ==
                  history # <<>> /\ history[Len(history)].role = "user"
              newUser == {i \in DOMAIN NewMessages : NewMessages[i].role = "user"}
          IN /\ Len(messages') >= Len(messages)
             /\ SubSeq(messages', 1, Len(messages)) = messages
             /\ Cardinality(newUser) <= 1
             /\ \A i \in newUser :
                   /\ i = 1
                   /\ endsWithUser
                   /\ NewMessages[i].content = history[Len(history)].content
             /\ ~endsWithUser => newUser = {}
             /\ (endsWithUser /\ resp'.provider_calls = 1) => newUser = {1}]_vars

\* C21 happens: a history of three messages is sent, the provider fails, and
\* the table holds the history's last message and nothing else.
C21_Witness ==
    /\ req.route = "chat"
    /\ "messages" \in DOMAIN req.data
    /\ Len(req.data.messages) = 3
    /\ resp.status = 500
    /\ resp.provider_calls = 1
    /\ Len(messages) = 1
    /\ messages[1].role = "user"
    /\ messages[1].content = req.data.messages[3].content

\* C22 as stated: a chat request rejected for an invalid model identifier
\* calls no provider and leaves the conversations, messages and usage
\* tables as they were.
C22_AsStated ==
    [][(/\ req'.route = "chat"
        /\ resp'.status = 400
        /\ resp'.error = "Invalid model selected") =>
           /\ resp'.provider_calls = 0
           /\ conversations' = conversations
           /\ messages' = messages
           /\ usage' = usage]_vars

\* the part of C22 that the code keeps: no provider call, no usage row
InvalidModelNotDispatched ==
    [][(/\ req'.route = "chat"
        /\ resp'.status = 400
        /\ resp'.error = "Invalid model selected") =>
           /\ resp'.provider_calls = 0
           /\ usage' = usage]_vars

\* the label app.py writes for each provider (lines 805, 866, 928)
LabelOfProvider ==
    [m \in {"openai", "gemini", "claude"} |->
        IF m = "openai" THEN "openai-gpt-4o"
        ELSE IF m = "gemini" THEN "gemini-2.5-flash"
        ELSE "claude-3-5-sonnet"]

\* C30: after every step, every row of the messages table has role "user"
\* or "assistant"; a user row has no model_used; an assistant row has one
\* of the three fixed labels; and an assistant row written by a chat
\* request carries the label of the provider that request named.
C30_RolesAndProvenance ==
    [][/\ \A i \in DOMAIN messages' :
             /\ messages'[i].role \in {"user", "assistant"}
             /\ messages'[i].role = "user" => messages'[i].model_used = "None"
             /\ messages'[i].role = "assistant" =>
                   \E m \in DOMAIN LabelOfProvider :
                       messages'[i].model_used = LabelOfProvider[m]
       /\ \A i \in (Len(messages) + 1)..Len(messages') :
             messages'[i].role = "assistant" =>
                 /\ req'.route = "chat"
                 /\ req'.data.model \in DOMAIN LabelOfProvider
                 /\ messages'[i].model_used = LabelOfProvider[req'.data.model]]_vars

\* C30 happens: the second provider has answered, and the table holds the
\* user's message without a label and the answer with that provider's.
C30_Witness ==
    /\ req.route = "chat"
    /\ resp.status = 200
    /\ Len(messages) >= 2
    /\ messages[Len(messages) - 1].role = "user"
    /\ messages[Len(messages) - 1].model_used = "None"
    /\ messages[Len(messages)].role = "assistant"
    /\ messages[Len(messages)].model_used = "gemini-2.5-flash"

AuthRoutes == {"register", "login", "logout", "me", "verify-email"}

\* the rows the hook made
LegacyRows(tbl) == {u \in DOMAIN tbl : tbl[u].session_id # "None"}

\* C28 as stated: a request to register, login, logout, me or verify-email
\* sets no session user_id and creates no legacy user record.
C28_AsStated ==
    [][req'.route \in AuthRoutes =>
          /\ session' = session
          /\ LegacyRows(users') = LegacyRows(users)]_vars

\* C25 as stated: whenever something fails inside a provider binding (the
\* client is not initialised, the call raises, the reply is malformed, the
\* usage row cannot be written), the binding returns an error payload and
\* the chat request is answered 500.
C25_AsStated ==
    [][(req'.route = "chat" /\ resp'.dispatch_failures # {}) =>
          /\ resp'.status = 500
          /\ resp'.error # "None"]_vars

\* the part of C25 that the code keeps: a failure of the call itself yields
\* the binding's error payload and a 500, never the handler's own except
\* branch
CallFailureGives500 ==
    [][(req'.route = "chat" /\ "call" \in resp'.dispatch_failures) =>
          /\ resp'.status = 500
          /\ \E m \in {"OpenAI", "Gemini", "Claude"}, o \in ChatOutcomes :
                resp'.error = "Error calling " \o m \o ": "
                                 \o ExceptionText(req'.data.model, o)]_vars

\* the texts of the exceptions that can occur while a chat turn is served
ExceptionTexts ==
    {ExceptionText(m, o) : m \in {"openai", "gemini", "claude"},
                           o \in {"error", "null", "uninitialized"}}
        \cup {CommitErrorText}

\* the error message ends in the text of an exception
CarriesExceptionText(error) ==
    \E pre \in {"Error calling OpenAI: ", "Error calling Gemini: ",
                "Error calling Claude: ",
                "Unexpected error in chat endpoint: "} :
        \E x \in ExceptionTexts : error = pre \o x

\* C26 as stated: a chat request answered 500, because the provider call
\* failed or because the handler met an unexpected exception, carries a
\* message without the text of the exception.
C26_AsStated ==
    [][(req'.route = "chat" /\ resp'.status = 500) =>
          ~CarriesExceptionText(resp'.error)]_vars

\* C27 as stated: whenever a commit fails while a request is served, the
\* session is rolled back explicitly before the response is produced.
C27_AsStated ==
    [][resp'.commit_failed => resp'.rolled_back]_vars

\* the part of C27 that the code keeps: the failed commit of a usage row is
\* rolled back
UsageFailureRolledBack ==
    [][(req'.route = "chat" /\ "usage row" \in resp'.dispatch_failures) =>
          resp'.rolled_back]_vars

BothRegisteredSameEmail ==
    /\ \A w \in {"w1", "w2"} :
          /\ inflight[w].pc = "done"
          /\ inflight[w].route = "register"
          /\ inflight[w].status # 400
    /\ Lower(Strip(inflight["w1"].data.email))
          = Lower(Strip(inflight["w2"].data.email))

\* C24 as stated: when two registrations with the same normalized email
\* have been served side by side, in whatever order their steps fell, at
\* most one user has that email, one request was answered 201 and the other
\* 409.
C24_AsStated ==
    BothRegisteredSameEmail =>
        /\ Cardinality({u \in DOMAIN users :
               users[u].email = Lower(Strip(inflight["w1"].data.email))}) <= 1
        /\ {inflight["w1"].status, inflight["w2"].status} = {201, 409}

\* the part of C24 that the code keeps: no two users share an email
EmailUnique ==
    \A u, v \in DOMAIN users : users[u].email = users[v].email => u = v

\* the position of a worker's user message in the table, or 0
UserRowAt(w, msgs) ==
    LET history == Get(inflight[w].data, "messages", <<>>)
        at == {i \in DOMAIN msgs :
                  /\ msgs[i].conversation_id = inflight[w].conv
                  /\ msgs[i].role = "user"
                  /\ msgs[i].content = history[Len(history)].content}
    IN IF at = {} THEN 0
       ELSE CHOOSE i \in at : \A j \in at : i <= j

\* C23: within one chat request the user's message is in the table before
\* the provider is called, and the assistant's message is written after the
\* call, behind the user's; two requests on one conversation are not
\* serialized against each other.
C23_UserBeforeCallAssistantAfter ==
    [][\A w \in Workers :
          inflight[w].pc = "chat-dispatch" =>
             /\ UserRowAt(w, messages) > 0
             /\ (inflight'[w].pc = "done" /\ inflight'[w].status = 200) =>
                   /\ Len(messages') = Len(messages) + 1
                   /\ SubSeq(messages', 1, Len(messages)) = messages
                   /\ messages'[Len(messages')].role = "assistant"
                   /\ messages'[Len(messages')].conversation_id =
                          inflight[w].conv
                   /\ UserRowAt(w, messages) < Len(messages')]_vars

\* C23 happens: both workers have answered 200 and the conversation holds
\* the two users' messages first and the two assistants' messages after them.
C23_Witness ==
    /\ \A w \in Workers : inflight[w].pc = "done" /\ inflight[w].status = 200
    /\ Len(messages) = 6
    /\ \A i \in 3..6 : messages[i].conversation_id = ConvIdPool[1]
    /\ messages[3].role = "user" /\ messages[3].content = Hey
    /\ messages[4].role = "user" /\ messages[4].content = Yo
    /\ messages[5].role = "assistant" /\ messages[5].model_used = "openai-gpt-4o"
    /\ messages[6].role = "assistant"
    /\ messages[6].model_used # messages[5].model_used

====
